---- MODULE Spec2Model ----
(***************************************************************************)
(* Model of papers_identifier: the Gemini client with API-key rotation      *)
(* (src/src/gemini_client.py), the Excel ledger (src/src/excel_writer.py),  *)
(* the first-page text extractor (src/src/pdf_processor.py) and the batch   *)
(* loop of src/src/main.py.                                                 *)
(*                                                                         *)
(* Python strings are sequences of one-character strings, so that strip(),  *)
(* lower(), endswith(), split() and int() are computed, not assumed.        *)
(***************************************************************************)
EXTENDS Integers, Sequences, FiniteSets, TLC

VARIABLES
    \* ---- GeminiClient (gemini_client.py) ----
    api_keys,            \* len(self.api_keys): size of the key pool
    current_key_index,   \* self.current_key_index
    call_counter,        \* self.call_counter
    model,               \* self.model: <<>> is None, <<k>> a model configured with key k
    \* ---- ExcelWriter (excel_writer.py) ----
    data,                \* self.data: the rows, loaded ones first
    saved,               \* the rows on disk after save(): <<>> until a save succeeds
    \* ---- main.py ----
    pc,                  \* position of main()
    listing,             \* os.listdir(base_path): entries [name, is_dir]
    subfolders,          \* result of get_subfolders
    unit,                \* index in subfolders of the subfolder being processed
    pdf_files,           \* pdf_files of process_subfolder
    file_idx,            \* position of the for loop over pdf_files
    start_item,          \* start_item
    \* ---- parser under test ----
    response_text,       \* argument of _parse_gemini_response
    \* ---- history (observations, never read by the program) ----
    ret,                 \* what the last call returned / whether it raised
    last,                \* the last client call: its inputs and the state it entered with
                         \* (op "none": the file's text was empty, the client was not called)
    keys_used,           \* key index of every request issued since the last reset
    requests_ok,         \* for each of them, whether it returned a response that was not blocked
    clean,               \* every extract call since the last reset issued a request that succeeded unblocked
    loaded,              \* number of rows data held after construction
    unit_pdfs,           \* the names with a .pdf suffix of every subfolder listed so far
    resets,              \* reset_key_rotation calls so far
    saves                \* save() calls so far

vars == <<api_keys, current_key_index, call_counter, model, data, saved, pc, listing,
          subfolders, unit, pdf_files, file_idx, start_item, response_text, ret, last,
          keys_used, requests_ok, clean, loaded, unit_pdfs, resets, saves>>

clientVars == <<current_key_index, call_counter, model>>
runVars == <<data, saved, pc, listing, subfolders, unit, pdf_files, file_idx, start_item,
             loaded, unit_pdfs, saves>>

-----------------------------------------------------------------------------
(* Bounds of the model *)

\* longest string value a JSON field holds in the parser's inputs
MaxStrLen == 2
\* largest key pool
MaxKeys == 2
\* most requests issued between two resets of the rotation
MaxCalls == 7
\* most entries os.listdir returns for the base path
MaxEntries == 2
\* most entries os.listdir returns for a subfolder
MaxFiles == 2

-----------------------------------------------------------------------------
(* Python strings *)

\* str.strip() with no argument removes whitespace
Whitespace == {" ", "\t", "\n"}

RECURSIVE lstrip(_)
lstrip(s) ==
    IF s = <<>> THEN <<>>
    ELSE IF Head(s) \in Whitespace THEN lstrip(Tail(s)) ELSE s

RECURSIVE rstrip(_)
rstrip(s) ==
    IF s = <<>> THEN <<>>
    ELSE IF s[Len(s)] \in Whitespace THEN rstrip(SubSeq(s, 1, Len(s) - 1)) ELSE s

strip(s) == rstrip(lstrip(s))

\* the sequences over alphabet of length at most n
RECURSIVE StringsUpTo(_, _)
StringsUpTo(alphabet, n) ==
    IF n = 0 THEN {<<>>}
    ELSE LET shorter == StringsUpTo(alphabet, n - 1)
         IN  shorter \cup {Append(s, c) : s \in shorter, c \in alphabet}

\* the literal 'not found'
NotFound == <<"n", "o", "t", " ", "f", "o", "u", "n", "d">>

\* str(None)
NoneStr == <<"N", "o", "n", "e">>

Digit(d) == CASE d = 0 -> "0" [] d = 1 -> "1" [] d = 2 -> "2" [] d = 3 -> "3" [] d = 4 -> "4"
              [] d = 5 -> "5" [] d = 6 -> "6" [] d = 7 -> "7" [] d = 8 -> "8" [] d = 9 -> "9"

\* str(n) of a non-negative int
RECURSIVE int_str(_)
int_str(n) == IF n < 10 THEN <<Digit(n)>> ELSE Append(int_str(n \div 10), Digit(n % 10))

-----------------------------------------------------------------------------
(* JSON documents *)

Keys == {"author", "year", "title", "abstract"}

\* a JSON value held by a key of the object; "missing" marks a key the object lacks
JNull == [t |-> "null", n |-> 0, s |-> <<>>]
JMissing == [t |-> "missing", n |-> 0, s |-> <<>>]
JNum(k) == [t |-> "num", n |-> k, s |-> <<>>]
JStr(x) == [t |-> "str", n |-> 0, s |-> x]

NoFields == [k \in Keys |-> JMissing]

\* what json.loads returns: a dict (kind "obj") or a list, str, number or None
JObject(f) == [kind |-> "obj", fields |-> f]
JOther(kind) == [kind |-> kind, fields |-> NoFields]

\* a response text is a sequence of segments: whitespace, prose, or the text of one JSON document
WsSeg == [seg |-> "ws", doc |-> JOther("none")]
ProseSeg == [seg |-> "prose", doc |-> JOther("none")]
JsonSeg(d) == [seg |-> "json", doc |-> d]

\* json.loads skips whitespace around the document
RECURSIVE skip_ws(_)
skip_ws(t) == IF t # <<>> /\ Head(t).seg = "ws" THEN skip_ws(Tail(t)) ELSE t

RECURSIVE skip_ws_end(_)
skip_ws_end(t) ==
    IF t # <<>> /\ t[Len(t)].seg = "ws" THEN skip_ws_end(SubSeq(t, 1, Len(t) - 1)) ELSE t

\* mutant of json_loads: the first JSON document found in the text is taken, whatever
\* surrounds it
json_loads_span(text) ==
    IF \E i \in 1..Len(text) : text[i].seg = "json"
    THEN [ok |-> TRUE,
          doc |-> text[CHOOSE i \in 1..Len(text) :
                          text[i].seg = "json" /\ \A j \in 1..(i - 1) : text[j].seg # "json"].doc]
    ELSE [ok |-> FALSE, doc |-> JOther("none")]

\* json.loads(text): the document, or JSONDecodeError (ok = FALSE) when the text is not
\* exactly one JSON document (empty text, prose, extra data around the document)
json_loads(text) ==
    LET body == skip_ws_end(skip_ws(text))
    IN  IF Len(body) = 1 /\ body[1].seg = "json"
        THEN [ok |-> TRUE, doc |-> body[1].doc]
        ELSE [ok |-> FALSE, doc |-> JOther("none")]

\* str(v) of a value a JSON object holds
py_str(v) ==
    CASE v.t = "str" -> v.s
      [] v.t = "num" -> int_str(v.n)
      [] v.t = "null" -> NoneStr

\* data.get(key, default)
dict_get(d, key, default) ==
    IF d.fields[key].t = "missing" THEN default ELSE d.fields[key]

_create_empty_response ==
    [author |-> NotFound, year |-> NotFound, title |-> NotFound, abstract |-> NotFound]

\* the dict built at lines 216-221
normalized_fields(d) ==
    [author   |-> strip(py_str(dict_get(d, "author", JStr(NotFound)))),
     year     |-> strip(py_str(dict_get(d, "year", JStr(NotFound)))),
     title    |-> strip(py_str(dict_get(d, "title", JStr(NotFound)))),
     abstract |-> strip(py_str(dict_get(d, "abstract", JStr(NotFound))))]

\* lines 213-221, the body of the try block: json.loads raises JSONDecodeError, and a
\* list, str, number or None has no .get (AttributeError)
parse_attempt(text) ==
    LET r == json_loads(text)
    IN  IF ~r.ok THEN [exc |-> "JSONDecodeError", fields |-> _create_empty_response]
        ELSE IF r.doc.kind # "obj"
             THEN [exc |-> "AttributeError", fields |-> _create_empty_response]
        ELSE [exc |-> "none", fields |-> normalized_fields(r.doc)]

\* mutant of parse_guarded: only json.JSONDecodeError is handled
parse_json_error_only(text) ==
    LET a == parse_attempt(text)
    IN  [raised |-> a.exc = "AttributeError",
         fields |-> IF a.exc # "none" THEN _create_empty_response ELSE a.fields]

\* lines 211-230: the try block with its two handlers, both returning the empty response
parse_guarded(text) ==
    LET a == parse_attempt(text)
    IN  [raised |-> FALSE,
         fields |-> IF a.exc # "none" THEN _create_empty_response ELSE a.fields]

\* _parse_gemini_response: the dict it returns
_parse_gemini_response(text) == parse_guarded(text).fields

-----------------------------------------------------------------------------
(* GeminiClient *)

\* self.max_calls_per_key
max_calls_per_key == 3

\* first-page texts: empty, whitespace-only, and texts with content
Texts == {<<>>, <<"\n", " ">>, <<" ", "x">>}

\* response bodies the provider returns in the client and batch specifications
SmithFields ==
    [k \in Keys |-> CASE k = "author" -> JStr(<<"A", " ", "S">>)
                      [] k = "year" -> JNum(2020)
                      [] OTHER -> JMissing]
BlankFields ==
    [k \in Keys |-> CASE k = "author" -> JStr(<<" ">>)
                      [] k = "year" -> JNull
                      [] k = "title" -> JStr(<<>>)
                      [] OTHER -> JStr(<<" ", "A", " ">>)]
ProviderTexts ==
    { <<JsonSeg(JObject(SmithFields))>>,
      <<JsonSeg(JObject(BlankFields))>>,
      <<ProseSeg>> }

\* what self.model.generate_content does: raise, return a blocked response, return a
\* response whose .text raises (no candidate to read), or return a response with a body
Responses ==
    { [kind |-> k, text |-> <<>>] : k \in {"throws", "blocked", "no_text"} }
    \cup { [kind |-> "ok", text |-> t] : t \in ProviderTexts }

\* mutant of _initialize_model: a failed initialization leaves a model of the first key
_initialize_model_stale(idx, init_ok) == IF init_ok THEN <<idx>> ELSE <<0>>

\* mutant of _initialize_model: the model is always configured with the first key
_initialize_model_first_key(idx, init_ok) == IF init_ok THEN <<0>> ELSE <<>>

\* _initialize_model: a model configured with api_keys[current_key_index], or None when
\* genai raises (init_ok = FALSE); prompt_config and api_keys are non-empty after __init__
_initialize_model(idx, init_ok) == IF init_ok THEN <<idx>> ELSE <<>>

\* mutant of rotation_due: the key rotates one call early
rotation_due_early(cnt) == cnt >= max_calls_per_key - 1

\* mutant of rotation_due: the budget test off by one
rotation_due_strict(cnt) == cnt > max_calls_per_key

\* the test at line 149
rotation_due(cnt) == cnt >= max_calls_per_key

\* mutant of next_key_index: no wrap at the end of the pool
next_key_index_no_wrap(idx, n) == idx + 1

\* line 152
next_key_index(idx, n) == (idx + 1) % n

\* mutant of text_is_empty: the strip() test forgotten
text_is_empty_no_strip(text) == text = <<>>

\* not text or not text.strip()
text_is_empty(text) == text = <<>> \/ strip(text) = <<>>

\* lines 177-194, the body of the try block: exc tells whether it raised, cnt is
\* call_counter when it ended
request_and_parse(cnt, resp) ==
    CASE resp.kind = "throws" ->
            [exc |-> TRUE, cnt |-> cnt, fields |-> _create_empty_response]
      [] resp.kind = "blocked" ->
            [exc |-> FALSE, cnt |-> cnt, fields |-> _create_empty_response]
      [] resp.kind = "no_text" ->
            [exc |-> TRUE, cnt |-> cnt + 1, fields |-> _create_empty_response]
      [] resp.kind = "ok" ->
            [exc |-> parse_guarded(resp.text).raised, cnt |-> cnt + 1,
             fields |-> _parse_gemini_response(resp.text)]

\* mutant of guarded_request: no except handler, the exception leaves the call
unguarded_request(cnt, resp) ==
    LET r == request_and_parse(cnt, resp)
    IN  [raised |-> r.exc, cnt |-> r.cnt, fields |-> r.fields]

\* lines 173-199: the try block with its except Exception handler
guarded_request(cnt, resp) ==
    LET r == request_and_parse(cnt, resp)
    IN  [raised |-> FALSE, cnt |-> r.cnt,
         fields |-> IF r.exc THEN _create_empty_response ELSE r.fields]

\* extract_paper_info as a function of the client's state and of what the provider does.
\* The prompt of line 177 (the text cut to 15000 characters) changes no state; what the
\* provider answers is drawn from Responses whatever the prompt.
extract_paper_info(idx, cnt, mdl, n, text, init_ok, resp) ==
    LET rot  == rotation_due(cnt)
        idx1 == IF rot THEN next_key_index(idx, n) ELSE idx
        cnt1 == IF rot THEN 0 ELSE cnt
        mdl1 == IF rot THEN _initialize_model(idx1, init_ok) ELSE mdl
        req  == guarded_request(cnt1, resp)
    IN  IF mdl1 = <<>> \/ text_is_empty(text)
        THEN [idx |-> idx1, cnt |-> cnt1, model |-> mdl1, rotated |-> rot,
              issued |-> FALSE, raised |-> FALSE, fields |-> _create_empty_response]
        ELSE [idx |-> idx1, cnt |-> req.cnt, model |-> mdl1, rotated |-> rot,
              issued |-> TRUE, raised |-> req.raised, fields |-> req.fields]

\* the request succeeded and was not blocked
Succeeded(r, resp) == r.issued /\ resp.kind \in {"no_text", "ok"}

\* the client's variables and the history after an extract_paper_info call
ApplyExtract(text, init_ok, resp) ==
    LET r == extract_paper_info(current_key_index, call_counter, model, api_keys,
                                text, init_ok, resp)
    IN  /\ current_key_index' = r.idx
        /\ call_counter' = r.cnt
        /\ model' = r.model
        /\ ret' = [raised |-> r.raised, fields |-> r.fields]
        /\ last' = [op |-> "extract", text |-> text,
                    kind |-> IF r.issued THEN resp.kind ELSE "none",
                    body |-> IF r.issued THEN resp.text ELSE <<>>,
                    idx0 |-> current_key_index, cnt0 |-> call_counter, model0 |-> model,
                    rotated |-> r.rotated, issued |-> r.issued,
                    init_ok |-> IF r.rotated THEN init_ok ELSE TRUE]
        /\ keys_used' = IF r.issued THEN Append(keys_used, r.model[1]) ELSE keys_used
        /\ requests_ok' = IF r.issued THEN Append(requests_ok, Succeeded(r, resp))
                          ELSE requests_ok
        /\ clean' = (clean /\ Succeeded(r, resp))

\* mutant of reset_key_rotation: the index reset, the counter kept
reset_index_only(init_ok) ==
    [idx |-> 0, cnt |-> call_counter, model |-> _initialize_model(0, init_ok)]

\* mutant of reset_key_rotation: the counter reset, the index kept
reset_counter_only(init_ok) ==
    [idx |-> current_key_index, cnt |-> 0,
     model |-> _initialize_model(current_key_index, init_ok)]

\* reset_key_rotation: the index, the counter and the model it leaves
reset_key_rotation(init_ok) ==
    [idx |-> 0, cnt |-> 0, model |-> _initialize_model(0, init_ok)]

\* the client's variables and the history after a reset_key_rotation call
ApplyReset(init_ok) ==
    /\ current_key_index' = reset_key_rotation(init_ok).idx
    /\ call_counter' = reset_key_rotation(init_ok).cnt
    /\ model' = reset_key_rotation(init_ok).model
    /\ last' = [op |-> "reset", text |-> <<>>, kind |-> "none", body |-> <<>>,
                idx0 |-> current_key_index, cnt0 |-> call_counter, model0 |-> model,
                rotated |-> FALSE, issued |-> FALSE, init_ok |-> init_ok]
    /\ keys_used' = <<>>
    /\ requests_ok' = <<>>
    /\ clean' = TRUE

NoCall == [op |-> "none", text |-> <<>>, kind |-> "none", body |-> <<>>, idx0 |-> 0, cnt0 |-> 0,
           model0 |-> <<0>>, rotated |-> FALSE, issued |-> FALSE, init_ok |-> TRUE]

NoReturn == [raised |-> FALSE, fields |-> _create_empty_response]

\* the client after __init__: it raises unless the model was initialized with key 0
ClientInit ==
    /\ api_keys \in 1..MaxKeys
    /\ current_key_index = 0
    /\ call_counter = 0
    /\ model = _initialize_model(0, TRUE)
    /\ ret = NoReturn
    /\ last = NoCall
    /\ keys_used = <<>>
    /\ requests_ok = <<>>
    /\ clean = TRUE
    /\ resets = 0

-----------------------------------------------------------------------------
(* ExcelWriter *)

\* the largest element of a non-empty set of integers
Max(S) == CHOOSE m \in S : \A x \in S : x <= m

\* mutant of get_next_item_number: the row count instead of the largest item
next_item_by_count(d) == Len(d) + 1

\* get_next_item_number
get_next_item_number(d) ==
    IF d = <<>> THEN 1 ELSE Max({d[i].item : i \in 1..Len(d)}) + 1

\* row_data.get(col, 'not found'), row_data a dict whose keys are DOMAIN row_data
row_get(row_data, col) == IF col \in DOMAIN row_data THEN row_data[col] ELSE NotFound

\* add_row: the row appended has the six columns, whatever keys row_data has
add_row(d, row_data) ==
    Append(d, [item      |-> row_get(row_data, "item"),
               file_name |-> row_get(row_data, "file_name"),
               author    |-> row_get(row_data, "author"),
               year      |-> row_get(row_data, "year"),
               title     |-> row_get(row_data, "title"),
               abstract  |-> row_get(row_data, "abstract")])

\* item numbers of the file found at start-up
LoadedItems == {<<>>, <<1, 2, 5>>}

\* a row read back by _load_existing_data
LoadedRow(i) ==
    [item |-> i, file_name |-> <<"o">>, author |-> <<"A">>, year |-> NotFound,
     title |-> <<"T">>, abstract |-> NotFound]

\* self.data after __init__: empty when there is no file or reading it fails
LoadedLedgers == { [i \in 1..Len(items) |-> LoadedRow(items[i])] : items \in LoadedItems }

-----------------------------------------------------------------------------
(* PDFProcessor *)

\* what opening a PDF gives: an exception (missing file, not a PDF), a document with no
\* page, or a first page whose extract_text() is text (<<>> for None or '')
Pdfs == { [kind |-> k, text |-> <<>>] : k \in {"error", "no_pages"} }
        \cup { [kind |-> "page", text |-> t] : t \in Texts }

\* extract_first_page_text
extract_first_page_text(pdf) ==
    CASE pdf.kind = "error" -> <<>>
      [] pdf.kind = "no_pages" -> <<>>
      [] pdf.kind = "page" -> IF pdf.text # <<>> THEN pdf.text ELSE <<>>

-----------------------------------------------------------------------------
(* main.py: names *)

\* str.lower() on the letters of the model's file names
lower_char(c) == CASE c = "P" -> "p" [] c = "D" -> "d" [] c = "F" -> "f" [] c = "B" -> "b"
                   [] OTHER -> c
lower(s) == [i \in 1..Len(s) |-> lower_char(s[i])]

endswith(s, suffix) ==
    /\ Len(s) >= Len(suffix)
    /\ SubSeq(s, Len(s) - Len(suffix) + 1, Len(s)) = suffix

startswith(s, prefix) ==
    /\ Len(s) >= Len(prefix)
    /\ SubSeq(s, 1, Len(prefix)) = prefix

\* s.split(sep) for a one-character separator
RECURSIVE split(_, _)
split(s, sep) ==
    IF \A i \in 1..Len(s) : s[i] # sep THEN <<s>>
    ELSE LET k == CHOOSE i \in 1..Len(s) : s[i] = sep /\ \A j \in 1..(i - 1) : s[j] # sep
         IN  <<SubSeq(s, 1, k - 1)>> \o split(SubSeq(s, k + 1, Len(s)), sep)

Digits == {"0", "1", "2", "3", "4", "5", "6", "7", "8", "9"}
digit_value(c) == CHOOSE d \in 0..9 : Digit(d) = c

RECURSIVE digits_value(_)
digits_value(s) ==
    IF s = <<>> THEN 0 ELSE 10 * digits_value(SubSeq(s, 1, Len(s) - 1)) + digit_value(s[Len(s)])

\* int(s): whitespace around, an optional sign, then decimal digits; ValueError otherwise
\* (ok = FALSE). The argument holds no underscore: it is a segment of split('_').
int_parse(s) ==
    LET t    == strip(s)
        sign == IF t # <<>> /\ Head(t) \in {"+", "-"} THEN Head(t) ELSE ""
        body == IF sign = "" THEN t ELSE Tail(t)
    IN  IF body # <<>> /\ \A i \in 1..Len(body) : body[i] \in Digits
        THEN [ok |-> TRUE, val |-> IF sign = "-" THEN 0 - digits_value(body) ELSE digits_value(body)]
        ELSE [ok |-> FALSE, val |-> 0]

\* code points of the characters that occur in the model's names
ord(c) == CASE c = " " -> 32 [] c = "+" -> 43 [] c = "-" -> 45 [] c = "." -> 46
            [] c \in Digits -> 48 + digit_value(c)
            [] c = "_" -> 95 [] c = "a" -> 97 [] c = "n" -> 110 [] c = "o" -> 111
            [] c = "p" -> 112 [] c = "r" -> 114 [] c = "t" -> 116 [] c = "x" -> 120

\* a < b for Python strings
RECURSIVE str_less(_, _)
str_less(a, b) ==
    IF b = <<>> THEN FALSE
    ELSE IF a = <<>> THEN TRUE
    ELSE IF Head(a) # Head(b) THEN ord(Head(a)) < ord(Head(b))
    ELSE str_less(Tail(a), Tail(b))

\* a < b for the tuples (part_num, item)
tuple_less(a, b) == a.num < b.num \/ (a.num = b.num /\ str_less(a.name, b.name))

RECURSIVE sorted(_)
sorted(s) ==
    IF s = <<>> THEN <<>>
    ELSE LET rest == sorted(Tail(s))
             k    == Cardinality({i \in 1..Len(rest) : tuple_less(rest[i], Head(s))})
         IN  SubSeq(rest, 1, k) \o <<Head(s)>> \o SubSeq(rest, k + 1, Len(rest))

PartPrefix == <<"p", "a", "r", "t", "_">>

\* lines 23-30: the (part_num, item) tuples of the entries that pass the tests
RECURSIVE part_tuples(_)
part_tuples(entries) ==
    IF entries = <<>> THEN <<>>
    ELSE LET e == Head(entries)
             n == int_parse(split(e.name, "_")[2])
         IN  IF e.is_dir /\ startswith(e.name, PartPrefix) /\ n.ok
             THEN <<[num |-> n.val, name |-> e.name]>> \o part_tuples(Tail(entries))
             ELSE part_tuples(Tail(entries))

\* get_subfolders
get_subfolders(entries) ==
    LET t == sorted(part_tuples(entries)) IN [i \in 1..Len(t) |-> t[i].name]

-----------------------------------------------------------------------------
(* main.py: the batch *)

\* the sequences of distinct elements of S of length at most n: what os.listdir can return
Listings(S, n) ==
    { l \in UNION { [1..k -> S] : k \in 0..n } : \A i, j \in 1..Len(l) : i # j => l[i] # l[j] }

Dir(name) == [name |-> name, is_dir |-> TRUE]
File(name) == [name |-> name, is_dir |-> FALSE]

\* entries of the base path in the batch specification
RunEntries == { Dir(PartPrefix \o <<"2">>), Dir(PartPrefix \o <<"1", "0">>) }

\* entries of the base path in the specification of get_subfolders
DirEntries ==
    RunEntries \cup
    { Dir(<<"n", "o">>), Dir(PartPrefix \o <<"1">>), Dir(PartPrefix \o <<"0", "2">>), Dir(PartPrefix \o <<"x">>),
      Dir(PartPrefix \o <<"1", "_", "o">>), Dir(PartPrefix), Dir(<<"p", "a", "r", "t">>),
      Dir(PartPrefix \o <<"-", "1">>), File(PartPrefix \o <<"3">>) }

\* names found in a subfolder
FileNames ==
    { <<"a", ".", "p", "d", "f">>, <<"B", ".", "P", "D", "F">>, <<"c", ".", "t", "x", "t">> }

PdfSuffix == <<".", "p", "d", "f">>

\* line 36
RECURSIVE select_pdf_files(_)
select_pdf_files(names) ==
    IF names = <<>> THEN <<>>
    ELSE IF endswith(lower(Head(names)), PdfSuffix)
         THEN <<Head(names)>> \o select_pdf_files(Tail(names))
         ELSE select_pdf_files(Tail(names))

\* the names of a listing that end in .pdf, in any case, in the listing's order
IsPdfName(name) ==
    /\ Len(name) >= 4
    /\ name[Len(name) - 3] = "."
    /\ name[Len(name) - 2] \in {"p", "P"}
    /\ name[Len(name) - 1] \in {"d", "D"}
    /\ name[Len(name)] \in {"f", "F"}

RECURSIVE PdfNames(_)
PdfNames(names) ==
    IF names = <<>> THEN <<>>
    ELSE (IF IsPdfName(Head(names)) THEN <<Head(names)>> ELSE <<>>) \o PdfNames(Tail(names))

\* lines 88-99 of main: the subfolders, the early return, the first item number
Discover ==
    /\ pc = "start"
    /\ subfolders' = get_subfolders(listing)
    /\ IF subfolders' = <<>>
       THEN pc' = "done" /\ UNCHANGED <<start_item, unit>>
       ELSE /\ pc' = "unit"
            /\ start_item' = get_next_item_number(data)
            /\ unit' = 1
    /\ UNCHANGED <<api_keys, clientVars, data, saved, listing, pdf_files, file_idx,
                   response_text, ret, last, keys_used, requests_ok, clean, loaded, unit_pdfs, resets,
                   saves>>

\* mutant of StartUnit: the rotation is reset before the first subfolder only
StartUnitResetOnce ==
    /\ pc = "unit"
    /\ IF unit = 1
       THEN (\E init_ok \in BOOLEAN : ApplyReset(init_ok)) /\ resets' = resets + 1
       ELSE UNCHANGED <<clientVars, last, keys_used, requests_ok, clean, resets>>
    /\ \E names \in Listings(FileNames, MaxFiles) :
        /\ pdf_files' = select_pdf_files(names)
        /\ unit_pdfs' = unit_pdfs \o PdfNames(names)
    /\ file_idx' = 1
    /\ pc' = "files"
    /\ UNCHANGED <<api_keys, data, saved, listing, subfolders, unit, start_item,
                   response_text, ret, loaded, saves>>

\* lines 102-110 of main and line 36 of process_subfolder
StartUnit ==
    /\ pc = "unit"
    /\ \E init_ok \in BOOLEAN : ApplyReset(init_ok)
    /\ resets' = resets + 1
    /\ \E names \in Listings(FileNames, MaxFiles) :
        /\ pdf_files' = select_pdf_files(names)
        /\ unit_pdfs' = unit_pdfs \o PdfNames(names)
    /\ file_idx' = 1
    /\ pc' = "files"
    /\ UNCHANGED <<api_keys, data, saved, listing, subfolders, unit, start_item,
                   response_text, ret, loaded, saves>>

\* the row the except handler adds (lines 66-73)
error_data(item, file_name) ==
    [item |-> item, file_name |-> file_name, author |-> NotFound, year |-> NotFound,
     title |-> NotFound, abstract |-> NotFound]

\* lines 54-55: the fields with item and file_name added
with_item(fields, item, file_name) ==
    [item |-> item, file_name |-> file_name, author |-> fields.author, year |-> fields.year,
     title |-> fields.title, abstract |-> fields.abstract]

\* mutant of rows_after_file: a file with nothing extracted is skipped
rows_skipping_failures(d, item, file_name, fields, raised) ==
    IF raised \/ fields = _create_empty_response THEN d
    ELSE add_row(d, with_item(fields, item, file_name))

\* the rows of self.data after one iteration of the for loop (lines 39-75): raised tells
\* whether extract_paper_info raised inside the try. extract_first_page_text catches its
\* own exceptions and the prints are taken not to fail, so nothing else in the try raises.
rows_after_file(d, item, file_name, fields, raised) ==
    IF raised THEN add_row(d, error_data(item, file_name))
    ELSE add_row(d, with_item(fields, item, file_name))

\* one iteration of the for loop of process_subfolder
ProcessFile ==
    /\ pc = "files"
    /\ file_idx <= Len(pdf_files)
    /\ \E pdf \in Pdfs :
        LET text == extract_first_page_text(pdf)
            name == pdf_files[file_idx]
        IN  IF text = <<>>
            THEN /\ data' = rows_after_file(data, start_item, name, _create_empty_response, FALSE)
                 /\ ret' = NoReturn
                 /\ last' = NoCall
                 /\ UNCHANGED <<clientVars, keys_used, requests_ok, clean>>
            ELSE \E init_ok \in BOOLEAN, resp \in Responses :
                 /\ ApplyExtract(text, init_ok, resp)
                 /\ data' = rows_after_file(data, start_item, name, ret'.fields, ret'.raised)
    /\ start_item' = start_item + 1
    /\ file_idx' = file_idx + 1
    /\ UNCHANGED <<api_keys, saved, pc, listing, subfolders, unit, pdf_files, response_text,
                   loaded, unit_pdfs, resets, saves>>

\* line 77 and lines 116-123: the subfolder is done
EndUnit ==
    /\ pc = "files"
    /\ file_idx > Len(pdf_files)
    /\ pc' = IF subfolders[unit] # subfolders[Len(subfolders)] THEN "prompt" ELSE "save"
    /\ UNCHANGED <<api_keys, clientVars, data, saved, listing, subfolders, unit, pdf_files,
                   file_idx, start_item, response_text, ret, last, keys_used, requests_ok, clean, loaded,
                   unit_pdfs, resets, saves>>

\* lines 118-121: the operator answers 's' or anything else
Prompt ==
    /\ pc = "prompt"
    /\ \E answer \in {"s", "n"} :
        IF answer = "s" THEN pc' = "unit" /\ unit' = unit + 1
        ELSE pc' = "save" /\ UNCHANGED unit
    /\ UNCHANGED <<api_keys, clientVars, data, saved, listing, subfolders, pdf_files,
                   file_idx, start_item, response_text, ret, last, keys_used, requests_ok, clean, loaded,
                   unit_pdfs, resets, saves>>

\* mutant of save_frame: the last row is left out
save_frame_short(d) == SubSeq(d, 1, Len(d) - 1)

\* the rows of the DataFrame save() writes (line 41): every row of self.data
save_frame(d) == d

\* line 125 and ExcelWriter.save: a failure to write is printed, not raised
Save ==
    /\ pc = "save"
    /\ \E write_ok \in BOOLEAN : saved' = IF write_ok THEN save_frame(data) ELSE saved
    /\ saves' = saves + 1
    /\ pc' = "done"
    /\ UNCHANGED <<api_keys, clientVars, data, listing, subfolders, unit, pdf_files,
                   file_idx, start_item, response_text, ret, last, keys_used, requests_ok, clean, loaded,
                   unit_pdfs, resets>>

\* the state main() starts from, the base path listing drawn from entries
RunInit(entries) ==
    /\ ClientInit
    /\ data \in LoadedLedgers
    /\ saved = data
    /\ loaded = Len(data)
    /\ pc = "start"
    /\ listing \in Listings(entries, MaxEntries)
    /\ subfolders = <<>>
    /\ unit = 0
    /\ pdf_files = <<>>
    /\ file_idx = 0
    /\ start_item = 0
    /\ response_text = <<>>
    /\ unit_pdfs = <<>>
    /\ saves = 0

Init == RunInit(RunEntries)

Next == Discover \/ StartUnit \/ ProcessFile \/ EndUnit \/ Prompt \/ Save

\* one run of main()
Spec == Init /\ [][Next]_vars

-----------------------------------------------------------------------------
(* get_subfolders on every listing of DirEntries *)

InitDiscover == RunInit(DirEntries)

SpecDiscover == InitDiscover /\ [][Discover]_vars

-----------------------------------------------------------------------------
(* The client under any sequence of reset_key_rotation and extract_paper_info calls *)

ClientReset ==
    /\ pc = "client"
    /\ \E init_ok \in BOOLEAN : ApplyReset(init_ok)
    /\ UNCHANGED <<api_keys, runVars, response_text, ret, resets>>

ClientExtract ==
    /\ pc = "client"
    /\ Len(keys_used) < MaxCalls
    /\ \E text \in Texts, init_ok \in BOOLEAN, resp \in Responses :
        ApplyExtract(text, init_ok, resp)
    /\ UNCHANGED <<api_keys, runVars, response_text, resets>>

InitClient ==
    /\ ClientInit
    /\ data = <<>>
    /\ saved = <<>>
    /\ loaded = 0
    /\ pc = "client"
    /\ listing = <<>>
    /\ subfolders = <<>>
    /\ unit = 0
    /\ pdf_files = <<>>
    /\ file_idx = 0
    /\ start_item = 0
    /\ response_text = <<>>
    /\ unit_pdfs = <<>>
    /\ saves = 0

NextClient == ClientReset \/ ClientExtract

SpecClient == InitClient /\ [][NextClient]_vars

-----------------------------------------------------------------------------
(* _parse_gemini_response on every response text of ParserInputs *)

\* the values a key of a JSON object holds in the parser's inputs
FieldValues ==
    {JMissing, JNull, JNum(2020)} \cup { JStr(x) : x \in StringsUpTo({" ", "A"}, MaxStrLen) }

ObjectDocs == { JObject(f) : f \in [Keys -> FieldValues] }

OtherDocs == { JOther(k) : k \in {"arr", "str", "num", "null"} }

\* documents that also occur with whitespace or prose around them
EmbeddedDocs == { JObject(SmithFields), JObject(BlankFields), JOther("arr") }

ParserInputs ==
    { <<JsonSeg(d)>> : d \in ObjectDocs \cup OtherDocs }
    \cup { <<WsSeg, JsonSeg(d), WsSeg>> : d \in EmbeddedDocs }
    \cup { <<ProseSeg, JsonSeg(d), ProseSeg>> : d \in EmbeddedDocs }
    \cup { <<>>, <<WsSeg>>, <<ProseSeg>> }

Parse ==
    /\ pc = "parse"
    /\ ret' = parse_guarded(response_text)
    /\ pc' = "parsed"
    /\ UNCHANGED <<api_keys, clientVars, data, saved, listing, subfolders, unit, pdf_files,
                   file_idx, start_item, response_text, last, keys_used, requests_ok, clean, loaded,
                   unit_pdfs, resets, saves>>

InitParser ==
    /\ ClientInit
    /\ api_keys = 1
    /\ data = <<>>
    /\ saved = <<>>
    /\ loaded = 0
    /\ pc = "parse"
    /\ listing = <<>>
    /\ subfolders = <<>>
    /\ unit = 0
    /\ pdf_files = <<>>
    /\ file_idx = 0
    /\ start_item = 0
    /\ response_text \in ParserInputs
    /\ unit_pdfs = <<>>
    /\ saves = 0

SpecParser == InitParser /\ [][Parse]_vars

-----------------------------------------------------------------------------
(* One run of main() or any sequence of client calls *)

\* a run of main() on a new ledger, or the client called on its own
InitRunOrClient == (Init /\ data = <<>>) \/ InitClient

NextRunOrClient == Next \/ NextClient

SpecRunOrClient == InitRunOrClient /\ [][NextRunOrClient]_vars

-----------------------------------------------------------------------------
(* Properties *)

\* the rows add_row appended during this run
Appended == SubSeq(data, loaded + 1, Len(data))

AllNotFound == [k \in Keys |-> NotFound]

IsSentinelRow(row) == \A k \in Keys : row[k] = NotFound

\* every character of the text is whitespace (the empty text included)
IsBlank(text) == \A i \in 1..Len(text) : text[i] \in {" ", "\t", "\n"}

\* the text is one JSON object, with nothing but whitespace around it
ParsesAsObject(text) ==
    \E i \in 1..Len(text) :
        /\ text[i].seg = "json" /\ text[i].doc.kind = "obj"
        /\ \A j \in 1..Len(text) : j # i => text[j].seg = "ws"

ObjectOf(text) == text[CHOOSE i \in 1..Len(text) : text[i].seg = "json"].doc

\* C1: the rows appended so far carry, in order, the names of the PDF files of the
\* subfolders listed so far, one row per file; between subfolders and when the run ends
\* no file of a processed subfolder is without its row and no file has two.
C1_OneRowPerFile ==
    /\ Len(Appended) <= Len(unit_pdfs)
    /\ \A i \in 1..Len(Appended) : Appended[i].file_name = unit_pdfs[i]
    /\ pc \in {"prompt", "save", "done"} => Len(Appended) = Len(unit_pdfs)

\* C1 witness: a run that ended after two subfolders of two PDFs each, one request of
\* which threw, with four rows appended
C1_Witness ==
    /\ pc = "done"
    /\ unit = 2
    /\ Len(unit_pdfs) = 4
    /\ Len(Appended) = 4
    /\ last.kind = "throws"

\* C2: while every extract call since the reset issued a request that succeeded unblocked,
\* the k-th request was made with key index floor((k-1)/3) mod pool size.
C2_RotationSequence ==
    clean => \A k \in 1..Len(keys_used) : keys_used[k] = ((k - 1) \div 3) % api_keys

\* C2 witness: seven successful calls on a pool of two used keys 0,0,0,1,1,1,0
C2_Witness ==
    /\ clean
    /\ api_keys = 2
    /\ keys_used = <<0, 0, 0, 1, 1, 1, 0>>

\* C3: an extract call whose request is blocked or ends in a provider error (a response
\* whose body cannot be read included) leaves call_counter where the entry of the call
\* put it: it does not consume rotation budget.
C3_FailedCallsFree ==
    (last.op = "extract" /\ last.issued /\ last.kind \in {"throws", "blocked", "no_text"})
        => call_counter = (IF last.cnt0 >= 3 THEN 0 ELSE last.cnt0)

\* C4: after reset_key_rotation the index is 0 and the counter is 0, whatever they were
\* and whether or not the model could be initialized again.
C4_ResetRestoresZero ==
    last.op = "reset" => current_key_index = 0 /\ call_counter = 0

\* C4 witness: a reset entered with a rotated index and a used budget, whose
\* initialization of the model failed
C4_Witness ==
    /\ last.op = "reset"
    /\ last.idx0 = 1
    /\ last.cnt0 = 3
    /\ ~last.init_ok
    /\ model = <<>>

\* the last extract call ended in one of the failure outcomes
C5_Failed ==
    \/ ~last.issued
    \/ last.kind \in {"throws", "blocked", "no_text"}
    \/ ~ParsesAsObject(last.body)

\* C5: extract_paper_info never raises; it returns the four fields, all 'not found' in
\* every failure outcome; in a run, the file whose request threw has its all-'not found'
\* row and the loop is still in the subfolder.
C5_NeverRaises ==
    /\ ~ret.raised
    /\ DOMAIN ret.fields = Keys
    /\ (last.op = "extract" /\ C5_Failed) => ret.fields = AllNotFound
    /\ (pc = "files" /\ last.op = "extract" /\ last.kind = "throws") =>
          /\ file_idx >= 2
          /\ data[Len(data)].file_name = pdf_files[file_idx - 1]
          /\ IsSentinelRow(data[Len(data)])

\* C5 witness: in a subfolder of two files the request for the first threw and the
\* second file is still to come
C5_Witness ==
    /\ pc = "files"
    /\ last.op = "extract"
    /\ last.kind = "throws"
    /\ Len(pdf_files) = 2
    /\ file_idx = 2

\* C6: for a body that parses as a JSON object, each field is 'not found' when the key is
\* missing or null, and otherwise the value as a string, trimmed.
C6_ParsedFields ==
    (pc = "parsed" /\ ParsesAsObject(response_text)) =>
        \A k \in Keys :
            LET v == ObjectOf(response_text).fields[k]
            IN  ret.fields[k] = IF v.t \in {"missing", "null"} THEN NotFound
                                ELSE strip(py_str(v))

\* C7: every appended row has the four fields and none of them is the empty string.
C7_NoEmptyField ==
    \A i \in 1..Len(Appended) :
        /\ Keys \subseteq DOMAIN Appended[i]
        /\ \A k \in Keys : Appended[i][k] # <<>>

\* the item number the run starts from: 1, or the largest loaded item + 1
C8_First ==
    IF loaded = 0 THEN 1
    ELSE 1 + CHOOSE m \in {data[i].item : i \in 1..loaded} :
                 \A i \in 1..loaded : data[i].item <= m

\* C8: the rows appended carry the items s, s+1, s+2, ... in append order, s being 1 or
\* the largest loaded item + 1, across subfolders and failed files; each is greater than
\* every loaded item.
C8_SequentialItems ==
    /\ \A i \in 1..Len(Appended) : Appended[i].item = C8_First + i - 1
    /\ \A i \in 1..Len(Appended) : \A j \in 1..loaded : Appended[i].item > data[j].item
    /\ pc \in {"unit", "files", "prompt", "save"} => start_item = C8_First + Len(Appended)

\* C8 witness: items 1, 2, 5 were loaded; rows 6, 7, 8 were appended over two subfolders,
\* the second one for a file with no text
C8_Witness ==
    /\ loaded = 3
    /\ unit = 2
    /\ Len(Appended) = 3
    /\ Appended[1].item = 6
    /\ Appended[3].item = 8
    /\ IsSentinelRow(Appended[2])

\* C9: an extract call with an empty or whitespace-only text returns the all-'not found'
\* record and issues no request.
C9_BlankTextNoRequest ==
    (last.op = "extract" /\ IsBlank(last.text)) =>
        /\ ~last.issued
        /\ ret.fields = AllNotFound

\* C9 witness: a whitespace-only text given to a client whose budget was used up, so
\* that the call rotated the key before looking at the text
C9_Witness ==
    /\ last.op = "extract"
    /\ last.text = <<"\n", " ">>
    /\ last.cnt0 = 3
    /\ last.rotated
    /\ model # <<>>

\* the name is part_ followed by decimal digits
C10_IsPartInteger(name) ==
    /\ Len(name) > Len(PartPrefix)
    /\ SubSeq(name, 1, Len(PartPrefix)) = PartPrefix
    /\ \A i \in (Len(PartPrefix) + 1)..Len(name) : name[i] \in Digits

C10_Number(name) == digits_value(SubSeq(name, Len(PartPrefix) + 1, Len(name)))

\* C10: the subfolders are exactly the directories named part_<integer>, in ascending
\* order of the integer; no other entry becomes a subfolder.
C10_ExactlyPartFolders ==
    pc # "start" =>
        /\ \A i \in 1..Len(subfolders) : C10_IsPartInteger(subfolders[i])
        /\ \A i \in 1..Len(listing) :
              (listing[i].is_dir /\ C10_IsPartInteger(listing[i].name))
                  => \E j \in 1..Len(subfolders) : subfolders[j] = listing[i].name
        /\ \A i, j \in 1..Len(subfolders) :
              i < j => C10_Number(subfolders[i]) <= C10_Number(subfolders[j])

\* C11: a run that found a subfolder ends after exactly one save(), which is given every
\* row of the ledger (what is on disk is all of them, or, the write having failed, what
\* was there before); a run that found none ends without a save. save() is never called
\* before the last add_row.
C11_OneSaveAtEnd ==
    /\ pc # "done" => saves = 0 /\ saved = SubSeq(data, 1, loaded)
    /\ (pc = "done" /\ subfolders = <<>>) => saves = 0 /\ saved = data /\ Appended = <<>>
    /\ (pc = "done" /\ subfolders # <<>>) =>
          /\ saves = 1
          /\ saved \in {data, SubSeq(data, 1, loaded)}

\* C11 witness: the operator stopped after the first of two subfolders, and the save
\* wrote the two rows appended for it
C11_Witness ==
    /\ pc = "done"
    /\ Len(subfolders) = 2
    /\ unit = 1
    /\ saves = 1
    /\ Len(Appended) = 2
    /\ saved = data

\* the text is not one JSON document with only whitespace around it
C12_NotJson(text) ==
    ~ \E i \in 1..Len(text) :
        /\ text[i].seg = "json"
        /\ \A j \in 1..Len(text) : j # i => text[j].seg = "ws"

\* the text is one JSON document that is not an object
C12_NotAnObject(text) ==
    \E i \in 1..Len(text) :
        /\ text[i].seg = "json" /\ text[i].doc.kind # "obj"
        /\ \A j \in 1..Len(text) : j # i => text[j].seg = "ws"

\* C12: a body that is not valid JSON, or is valid JSON but not an object, gives the
\* all-'not found' record and no exception.
C12_UnparsableGivesSentinel ==
    (pc = "parsed" /\ (C12_NotJson(response_text) \/ C12_NotAnObject(response_text))) =>
        /\ ~ret.raised
        /\ ret.fields = AllNotFound

\* C12 witness: the body was a JSON array
C12_Witness ==
    /\ pc = "parsed"
    /\ response_text = <<JsonSeg(JOther("arr"))>>
    /\ ret.fields = AllNotFound

\* the text holds a JSON object with prose before or after it
C13_ObjectInProse(text) ==
    /\ \E i \in 1..Len(text) : text[i].seg = "json" /\ text[i].doc.kind = "obj"
    /\ \E i \in 1..Len(text) : text[i].seg = "prose"

\* C13 as stated: the object embedded in prose is located and its fields are returned
C13_EmbeddedObjectFound ==
    (pc = "parsed" /\ C13_ObjectInProse(response_text)) =>
        ret.fields = normalized_fields(ObjectOf(response_text))

\* C13 amended: an object embedded in prose is not located; the parser returns the
\* all-'not found' record for it, without an exception.
C13_EmbeddedObjectRejected ==
    (pc = "parsed" /\ C13_ObjectInProse(response_text)) =>
        /\ ~ret.raised
        /\ ret.fields = AllNotFound

\* C13 witness: the body was prose, an object with an author and a year, prose
C13_Witness ==
    /\ pc = "parsed"
    /\ response_text = <<ProseSeg, JsonSeg(JObject(SmithFields)), ProseSeg>>

\* C14: an extract call entered with the budget used up whose initialization of the model
\* for the next key fails returns the all-'not found' record, issues no request and
\* leaves call_counter at 0.
C14_FailedRotation ==
    (last.op = "extract" /\ last.cnt0 >= 3 /\ ~last.init_ok) =>
        /\ ~last.issued
        /\ ret.fields = AllNotFound
        /\ call_counter = 0
        /\ model = <<>>

\* C14 witness: such a call, made with a text that has content, on a model that was bound
C14_Witness ==
    /\ last.op = "extract"
    /\ last.cnt0 = 3
    /\ ~last.init_ok
    /\ last.model0 # <<>>
    /\ ~IsBlank(last.text)

\* C15: the index changes only in reset_key_rotation or at the entry of an extract call
\* whose call_counter is at least 3; so the first three requests after a reset, and with
\* them every request of a subfolder of at most three files, use key 0.
C15_RotationOnlyAtBudget ==
    /\ [][ current_key_index' # current_key_index =>
              \/ last'.op = "reset"
              \/ last'.op = "extract" /\ call_counter >= 3 ]_vars
    /\ [](\A k \in 1..Len(keys_used) : k <= 3 => keys_used[k] = 0)

\* C15 witness: the fourth request after a reset was made with key 1, the call having
\* rotated at its entry
C15_Witness ==
    /\ Len(keys_used) = 4
    /\ keys_used = <<0, 0, 0, 1>>
    /\ last.op = "extract"
    /\ last.rotated
    /\ last.cnt0 = 3

\* C16: reset_key_rotation has been called once per subfolder started, before its first
\* file and never between two of its files, and no extract call precedes the first reset.
C16_OneResetPerUnit ==
    /\ pc = "unit" => resets = unit - 1
    /\ pc \in {"files", "prompt", "save"} => resets = unit
    /\ (pc = "done" /\ subfolders # <<>>) => resets = unit
    /\ (pc = "files" /\ file_idx = 1) => last.op = "reset" /\ keys_used = <<>>
    /\ (pc = "files" /\ file_idx > 1) => last.op # "reset"
    /\ resets = 0 => last.op = "none"

\* C16 witness: in the second subfolder, after its reset, the first file went to the client
C16_Witness ==
    /\ pc = "files"
    /\ unit = 2
    /\ resets = 2
    /\ file_idx = 2
    /\ last.op = "extract"

\* C17: the index stays inside the pool and the counter between 0 and 3.
C17_RotationStateBounds ==
    /\ 0 <= current_key_index /\ current_key_index < api_keys
    /\ 0 <= call_counter /\ call_counter <= 3

\* C17 witness: the last key of a pool of two with its budget used up
C17_Witness ==
    /\ api_keys = 2
    /\ current_key_index = 1
    /\ call_counter = 3

\* C18: with a pool of at least 2, among the requests since the reset no stretch of
\* requests on one key holds a request after its third unblocked response, whatever
\* failed between them, and the key after a stretch is the next key of the pool.
C18_BudgetPerKey ==
    api_keys >= 2 =>
        /\ \A i, j \in 1..Len(keys_used) :
              (i < j /\ \A m \in i..j : keys_used[m] = keys_used[i])
                  => Cardinality({m \in i..(j - 1) : requests_ok[m]}) <= 2
        /\ \A i \in 2..Len(keys_used) :
              keys_used[i] # keys_used[i - 1]
                  => keys_used[i] = (keys_used[i - 1] + 1) % api_keys

\* C18 witness: on a pool of two, four requests on key 0, the second of them failed,
\* then a request on key 1
C18_Witness ==
    /\ api_keys = 2
    /\ keys_used = <<0, 0, 0, 0, 1>>
    /\ requests_ok = <<TRUE, FALSE, TRUE, TRUE, TRUE>>

\* C19: a model that is bound is bound to the key at current_key_index, so every request
\* is made with that key.
C19_ModelBoundToCurrentKey ==
    /\ model # <<>> => model = <<current_key_index>>
    /\ (last.op = "extract" /\ last.issued) => keys_used[Len(keys_used)] = current_key_index

\* C19 witness: a request made after a rotation, with key 1
C19_Witness ==
    /\ model = <<1>>
    /\ current_key_index = 1
    /\ last.op = "extract"
    /\ last.issued
    /\ last.idx0 = 1

\* C20: while the model is unbound, an extract call binds nothing: it returns the
\* all-'not found' record, issues no request and leaves the index and the counter as
\* they are; only a reset_key_rotation can bind the model again.
C20_UnboundUntilReset ==
    [][ (model = <<>> /\ last'.op = "extract") =>
            /\ model' = <<>>
            /\ current_key_index' = current_key_index
            /\ call_counter' = call_counter
            /\ keys_used' = keys_used
            /\ ~last'.issued
            /\ ret'.fields = AllNotFound ]_vars

\* C20 witness: an extract call made on a client whose model was unbound, with a text
\* that has content
C20_Witness ==
    /\ last.op = "extract"
    /\ last.model0 = <<>>
    /\ ~IsBlank(last.text)
    /\ model = <<>>

====
